---- MODULE Spec2Model ----
(***************************************************************************)
(* CustomStorage (src/CustomStorage.js): a namespaced, JSON-encoding,      *)
(* merge- and expiration-aware client over localStorage, with an object    *)
(* based fallback driver.                                                  *)
(*                                                                         *)
(* JavaScript values are tagged tuples:                                    *)
(*   <<"undef">>  <<"null">>  <<"bool", b>>  <<"nan">>                  *)
(*   <<"num", hi, lo>>   the non-negative integer hi * Base + lo           *)
(*   <<"str", chars>>    a string, as the sequence of its characters       *)
(*   <<"obj", props>>    a plain object, as the sequence of its own        *)
(*                       <<name, value>> properties in insertion order     *)
(* A serialized (JSON) text is a sequence of lexical tokens.               *)
(***************************************************************************)
EXTENDS Integers, Sequences, FiniteSets, TLC

VARIABLES client, localStorage, cache, now, last, twin, lastWrite, soleKey, nOps, nTicks

vars == <<client, localStorage, cache, now, last, twin, lastWrite, soleKey, nOps, nTicks>>

(***************************************************************************)
(* Bounds of the model.                                                    *)
(***************************************************************************)
MaxOps == 3
MaxTicks == 2
MaxDurationSets == 1

(***************************************************************************)
(* Numbers.  Millisecond amounts exceed 32 bits (YEAR = 31536000000), so   *)
(* a number is kept exactly in two limbs of base Base.                     *)
(***************************************************************************)
Base == 10 * 10 * 10

Undefined == <<"undef">>
Null == <<"null">>
NaN == <<"nan">>
Bool(b) == <<"bool", b>>
Num(n) == <<"num", n \div Base, n % Base>>
Wide(hi, lo) == <<"num", hi, lo>>
Str(chars) == <<"str", chars>>
Obj(props) == <<"obj", props>>

Tag(v) == v[1]
IsNum(v) == Tag(v) = "num"
IsObj(v) == Tag(v) = "obj"
IsStr(v) == Tag(v) = "str"

\* a + b on numbers (NaN is contagious)
Plus(a, b) ==
  IF ~IsNum(a) \/ ~IsNum(b) THEN NaN
  ELSE Wide(a[2] + b[2] + ((a[3] + b[3]) \div Base), (a[3] + b[3]) % Base)

\* a * b on numbers (NaN is contagious)
Times(a, b) ==
  IF ~IsNum(a) \/ ~IsNum(b) THEN NaN
  ELSE Wide(a[2] * b[2] * Base + a[2] * b[3] + a[3] * b[2] + ((a[3] * b[3]) \div Base),
            (a[3] * b[3]) % Base)

\* a < b on numbers: every comparison with NaN is false
Less(a, b) ==
  /\ IsNum(a)
  /\ IsNum(b)
  /\ \/ a[2] < b[2]
     \/ a[2] = b[2] /\ a[3] < b[3]

(***************************************************************************)
(* Characters and strings.                                                 *)
(***************************************************************************)
Digits == <<"0", "1", "2", "3", "4", "5", "6", "7", "8", "9">>
Lower == <<"a", "b", "c", "d", "e", "f", "g", "h", "i", "j", "k", "l", "m",
           "n", "o", "p", "q", "r", "s", "t", "u", "v", "w", "x", "y", "z">>
Upper == <<"A", "B", "C", "D", "E", "F", "G", "H", "I", "J", "K", "L", "M",
           "N", "O", "P", "Q", "R", "S", "T", "U", "V", "W", "X", "Y", "Z">>

IsDigit(ch) == \E i \in 1..10 : Digits[i] = ch
DigitValue(ch) == (CHOOSE i \in 1..10 : Digits[i] = ch) - 1

\* String.prototype.toUpperCase, one character
UpperChar(ch) ==
  IF \E i \in 1..26 : Lower[i] = ch
  THEN Upper[CHOOSE i \in 1..26 : Lower[i] = ch]
  ELSE ch

\* String.prototype.toUpperCase
toUpperCase(chars) == [i \in 1..Len(chars) |-> UpperChar(chars[i])]

\* String.prototype.replace(/s$/, ''): drops one trailing lower-case "s"
replaceTrailingS(chars) ==
  IF Len(chars) > 0 /\ chars[Len(chars)] = "s"
  THEN SubSeq(chars, 1, Len(chars) - 1)
  ELSE chars

\* index of the first occurrence of ch in chars, 0 when there is none
IndexOf(chars, ch) ==
  IF \E i \in 1..Len(chars) : chars[i] = ch
  THEN CHOOSE i \in 1..Len(chars) : chars[i] = ch /\ \A j \in 1..(i - 1) : chars[j] # ch
  ELSE 0

RECURSIVE split(_, _)
\* the words of chars, the first separator being at index i (0: there is none)
SplitAt(chars, sep, i) ==
  IF i = 0 THEN <<chars>>
  ELSE <<SubSeq(chars, 1, i - 1)>> \o split(SubSeq(chars, i + 1, Len(chars)), sep)

\* String.prototype.split(sep) for a one-character separator
split(chars, sep) == SplitAt(chars, sep, IndexOf(chars, sep))

RECURSIVE DigitsToNumber(_)
\* the value of a non-empty sequence of decimal digits
DigitsToNumber(chars) ==
  IF Len(chars) = 0 THEN Num(0)
  ELSE Plus(Times(DigitsToNumber(SubSeq(chars, 1, Len(chars) - 1)), Num(10)),
            Num(DigitValue(chars[Len(chars)])))

\* ToNumber that makes null not a number
ToNumberNullNaN(v) ==
  CASE Tag(v) = "num" -> v
    [] Tag(v) = "bool" -> IF v[2] THEN Num(1) ELSE Num(0)
    [] Tag(v) = "str" ->
         IF \A i \in 1..Len(v[2]) : IsDigit(v[2][i]) THEN DigitsToNumber(v[2]) ELSE NaN
    [] OTHER -> NaN

\* ToNumber of the language: what the operators * and < apply to an operand
ToNumber(v) ==
  CASE Tag(v) = "num" -> v
    [] Tag(v) = "null" -> Num(0)
    [] Tag(v) = "bool" -> IF v[2] THEN Num(1) ELSE Num(0)
    [] Tag(v) = "str" ->
         IF \A i \in 1..Len(v[2]) : IsDigit(v[2][i]) THEN DigitsToNumber(v[2]) ELSE NaN
    [] OTHER -> NaN

\* ToBoolean of the language: what !, && and || and if apply to an operand
Truthy(v) ==
  CASE Tag(v) = "undef" -> FALSE
    [] Tag(v) = "null" -> FALSE
    [] Tag(v) = "nan" -> FALSE
    [] Tag(v) = "bool" -> v[2]
    [] Tag(v) = "num" -> v[2] # 0 \/ v[3] # 0
    [] Tag(v) = "str" -> Len(v[2]) > 0
    [] OTHER -> TRUE

(***************************************************************************)
(* Plain objects.                                                          *)
(***************************************************************************)
Names(props) == {props[i][1] : i \in 1..Len(props)}

HasOwn(props, name) == name \in Names(props)

PropIndex(props, name) == CHOOSE i \in 1..Len(props) : props[i][1] = name

\* v[name]: undefined for a missing property and for every primitive
GetProp(v, name) ==
  IF IsObj(v) /\ HasOwn(v[2], name) THEN v[2][PropIndex(v[2], name)][2] ELSE Undefined

\* an assignment that leaves an existing property as it is
PutPropKeepOld(props, name, value) ==
  IF HasOwn(props, name) THEN props ELSE Append(props, <<name, value>>)

\* props[name] = value: an existing property keeps its place, a new one is appended
PutProp(props, name, value) ==
  IF HasOwn(props, name)
  THEN [props EXCEPT ![PropIndex(props, name)] = <<name, value>>]
  ELSE Append(props, <<name, value>>)

RECURSIVE AssignAll(_, _)
\* the loop of extend over the own properties of other, source being an object
AssignAll(props, others) ==
  IF Len(others) = 0 THEN props
  ELSE AssignAll(PutProp(props, others[1][1], others[1][2]), Tail(others))

\* extend(source, other): an assignment to a property of a primitive source is
\* silently dropped (the file is not in strict mode), and source is returned
extend(source, other) ==
  IF IsObj(source) /\ IsObj(other) THEN Obj(AssignAll(source[2], other[2])) ELSE source

(***************************************************************************)
(* JSON.  A text is a sequence of tokens:                                  *)
(*   <<"{">> <<"}">> <<":">> <<",">>   punctuation                      *)
(*   <<"lit", w>>   the word null, true or false                           *)
(*   <<"num", hi, lo>>  a number      <<"str", chars>>  a string literal   *)
(*   <<"key", name>>    a string literal in member-name position           *)
(*   <<"bad">>      a character sequence that is no JSON token             *)
(***************************************************************************)
RECURSIVE stringify(_)
RECURSIVE stringifyMembers(_, _)
\* the members of an object; a property whose value is undefined is left out
stringifyMembers(props, first) ==
  IF Len(props) = 0 THEN <<>>
  ELSE IF props[1][2] = Undefined THEN stringifyMembers(Tail(props), first)
  ELSE (IF first THEN <<>> ELSE << <<",">> >>)
       \o << <<"key", props[1][1]>>, <<":">> >>
       \o stringify(props[1][2])
       \o stringifyMembers(Tail(props), FALSE)

\* JSON.stringify of a value nested in an object (NaN is written as null)
stringify(v) ==
  CASE Tag(v) = "null" -> << <<"lit", "null">> >>
    [] Tag(v) = "nan" -> << <<"lit", "null">> >>
    [] Tag(v) = "bool" -> << <<"lit", IF v[2] THEN "true" ELSE "false">> >>
    [] Tag(v) = "num" -> << v >>
    [] Tag(v) = "str" -> << v >>
    [] Tag(v) = "obj" -> << <<"{">> >> \o stringifyMembers(v[2], TRUE) \o << <<"}">> >>
    [] OTHER -> <<>>

SyntaxError == [ok |-> FALSE, val |-> Undefined, rest |-> <<>>]

RECURSIVE parseValue(_)
RECURSIVE parseMembers(_, _)
\* after a member whose value parsed as r: "}" ends the object acc, "," goes on
parseMemberEnd(r, acc) ==
  IF ~r.ok \/ Len(r.rest) = 0 THEN SyntaxError
  ELSE IF r.rest[1] = <<"}">> THEN [ok |-> TRUE, val |-> Obj(acc), rest |-> Tail(r.rest)]
  ELSE IF r.rest[1] = <<",">> THEN parseMembers(Tail(r.rest), acc)
  ELSE SyntaxError

\* the value r of the member named name, added to the properties props
parseMember(name, r, props) == parseMemberEnd(r, PutProp(props, name, r.val))

\* the members of an object after "{" or ",": name ":" value, then "," or "}"
parseMembers(toks, props) ==
  IF Len(toks) < 3 \/ toks[1][1] # "key" \/ toks[2] # <<":">> THEN SyntaxError
  ELSE parseMember(toks[1][2], parseValue(SubSeq(toks, 3, Len(toks))), props)

\* one JSON value at the head of toks
parseValue(toks) ==
  IF Len(toks) = 0 THEN SyntaxError
  ELSE CASE toks[1][1] = "lit" ->
              [ok |-> TRUE,
               val |-> IF toks[1][2] = "null" THEN Null ELSE Bool(toks[1][2] = "true"),
               rest |-> Tail(toks)]
         [] toks[1][1] = "num" -> [ok |-> TRUE, val |-> toks[1], rest |-> Tail(toks)]
         [] toks[1][1] = "str" -> [ok |-> TRUE, val |-> toks[1], rest |-> Tail(toks)]
         [] toks[1][1] = "{" ->
              IF Len(toks) >= 2 /\ toks[2] = <<"}">>
              THEN [ok |-> TRUE, val |-> Obj(<<>>), rest |-> SubSeq(toks, 3, Len(toks))]
              ELSE parseMembers(Tail(toks), <<>>)
         [] OTHER -> SyntaxError

\* the text was one JSON value exactly when nothing is left after it
parseAll(r) ==
  IF r.ok /\ Len(r.rest) = 0 THEN [ok |-> TRUE, val |-> r.val]
  ELSE [ok |-> FALSE, val |-> Undefined]

\* JSON.parse(text): the value, or a SyntaxError when text is not one JSON value
parse(text) == parseAll(parseValue(text))

(***************************************************************************)
(* Time units and the duration parser.                                     *)
(***************************************************************************)
SECOND == Num(1000)
MINUTE == Times(Num(60), SECOND)
HOUR == Times(Num(60), MINUTE)
DAY == Times(Num(24), HOUR)
WEEK == Times(Num(7), DAY)
MONTH == Times(Num(30), DAY)
YEAR == Times(Num(365), DAY)

\* CustomStorage.TIME_UNITS: the own properties of the table, by name
TIME_UNITS ==
  << << <<"S", "E", "C", "O", "N", "D">>, SECOND >>,
     << <<"M", "I", "N", "U", "T", "E">>, MINUTE >>,
     << <<"H", "O", "U", "R">>, HOUR >>,
     << <<"D", "A", "Y">>, DAY >>,
     << <<"W", "E", "E", "K">>, WEEK >>,
     << <<"M", "O", "N", "T", "H">>, MONTH >>,
     << <<"Y", "E", "A", "R">>, YEAR >> >>

\* CustomStorage.normalizeTimeUnit
normalizeTimeUnit(timeUnit) == toUpperCase(replaceTrailingS(timeUnit))

\* table[name]: undefined for a name that is no property of the table
Lookup(table, name) ==
  IF \E i \in 1..Len(table) : table[i][1] = name
  THEN table[CHOOSE i \in 1..Len(table) : table[i][1] = name][2]
  ELSE Undefined

\* CustomStorage.convertTimeUnitToMilliseconds: undefined for a name not in the table
convertTimeUnitToMilliseconds(timeUnit) == Lookup(TIME_UNITS, normalizeTimeUnit(timeUnit))

\* amount * unit for the words of the string: a string without a space has no
\* second word, and normalizeTimeUnit(undefined) is a TypeError
convertWords(words) ==
  IF Len(words) < 2 THEN [threw |-> TRUE, val |-> Undefined]
  ELSE [threw |-> FALSE,
        val |-> Times(ToNumber(Str(words[1])),
                      ToNumber(convertTimeUnitToMilliseconds(words[2])))]

\* CustomStorage.convertExpirationStringToMilliseconds
convertExpirationStringToMilliseconds(expiresIn) == convertWords(split(expiresIn, " "))

\* now + ms, unless the conversion threw
addToNow(ms, t) == IF ms.threw THEN ms ELSE [threw |-> FALSE, val |-> Plus(t, ms.val)]

\* CustomStorage.calculateExpirationTimestamp, t being the reading of +new Date
calculateExpirationTimestamp(expiresIn, t) ==
  addToNow(convertExpirationStringToMilliseconds(expiresIn), t)

(***************************************************************************)
(* Drivers.  A heap h = [ls, cache] holds window.localStorage (ls) and the *)
(* cache object of every client's fallback driver (cache[c]); both map a   *)
(* driver key to the stored text.  client[c] is the object the constructor *)
(* left: its prefix and its driver ("localStorage", "fallback", or "none"  *)
(* when the constructor returned early).                                   *)
(***************************************************************************)
Put(f, k, v) == [x \in (DOMAIN f) \cup {k} |-> IF x = k THEN v ELSE f[x]]

Remove(f, k) == [x \in (DOMAIN f) \ {k} |-> f[x]]

\* a constructor that binds the driver and the prefix whatever the prefix is
CustomStorageBound(prefix, hasLocalStorage) ==
  [prefix |-> prefix, driver |-> IF hasLocalStorage THEN "localStorage" ELSE "fallback"]

\* new CustomStorage(prefix) in a window that has localStorage or has not
CustomStorage(prefix, hasLocalStorage) ==
  IF ~Truthy(prefix) THEN [prefix |-> Undefined, driver |-> "none"]
  ELSE [prefix |-> prefix,
        driver |-> IF hasLocalStorage THEN "localStorage" ELSE "fallback"]

\* the storage a client's driver works on: 0 is localStorage, c the cache of client c
DriverOf(cl, c) == IF cl[c].driver = "localStorage" THEN 0 ELSE c

\* prefixKey that leaves the prefix out
prefixKeyNoPrefix(cl, c, key) == <<":">> \o key

\* CustomStorage.prototype.prefixKey
prefixKey(cl, c, key) == cl[c].prefix[2] \o <<":">> \o key

\* driver.setItem(key, value)
setItem(cl, c, pkey, value, h) ==
  IF cl[c].driver = "localStorage"
  THEN [h EXCEPT !.ls = Put(h.ls, pkey, value)]
  ELSE [h EXCEPT !.cache[c] = Put(h.cache[c], pkey, value)]

\* driver.getItem(key): localStorage answers null for a missing key, the
\* fallback answers undefined (a missing property of cache)
getItem(cl, c, pkey, h) ==
  IF cl[c].driver = "localStorage"
  THEN IF pkey \in DOMAIN h.ls THEN Str(h.ls[pkey]) ELSE Null
  ELSE IF pkey \in DOMAIN h.cache[c] THEN Str(h.cache[c][pkey]) ELSE Undefined

\* removeItem whose fallback branch deletes nothing
removeItemCacheKept(cl, c, pkey, h) ==
  IF cl[c].driver = "localStorage" THEN [h EXCEPT !.ls = Remove(h.ls, pkey)] ELSE h

\* driver.removeItem(key)
removeItem(cl, c, pkey, h) ==
  IF cl[c].driver = "localStorage"
  THEN [h EXCEPT !.ls = Remove(h.ls, pkey)]
  ELSE [h EXCEPT !.cache[c] = Remove(h.cache[c], pkey)]

(***************************************************************************)
(* The methods.  Each takes the heap h and the clock reading t and yields  *)
(* [h, ret, threw, calls]: the heap it leaves, the value it returns,       *)
(* whether it ended in an exception, and the arguments of the callback     *)
(* invocations it made.                                                    *)
(***************************************************************************)
Return(h, ret) == [h |-> h, ret |-> ret, threw |-> FALSE, calls |-> <<>>]

Throw(h) == [h |-> h, ret |-> Undefined, threw |-> TRUE, calls |-> <<>>]

\* keyExists that answers false for an entry that carries an expiresAt
keyExistsUntimed(cl, c, key, h) ==
  /\ Truthy(getItem(cl, c, prefixKey(cl, c, key), h))
  /\ ~HasOwn(parse(getItem(cl, c, prefixKey(cl, c, key), h)[2]).val[2], "expiresAt")

\* CustomStorage.prototype.keyExists (the client has a driver)
keyExists(cl, c, key, h) == Truthy(getItem(cl, c, prefixKey(cl, c, key), h))

\* isExpired that never finds an item expired
isExpiredNever(storageItem, t) == FALSE

\* isExpired that also finds expired an item whose expiresAt is the current time
isExpiredAtOrBefore(storageItem, t) ==
  IF ~Truthy(storageItem) THEN FALSE
  ELSE ~Less(t, ToNumber(GetProp(storageItem, "expiresAt")))
       /\ IsNum(ToNumber(GetProp(storageItem, "expiresAt")))

\* CustomStorage.prototype.isExpired
isExpired(storageItem, t) ==
  IF ~Truthy(storageItem) THEN FALSE
  ELSE Less(ToNumber(GetProp(storageItem, "expiresAt")), t)

\* erase that removes nothing
eraseNothing(cl, c, key, h) == IF cl[c].driver = "none" THEN Throw(h) ELSE Return(h, Undefined)

\* CustomStorage.prototype.erase
erase(cl, c, key, h) ==
  IF cl[c].driver = "none" THEN Throw(h)
  ELSE Return(removeItem(cl, c, prefixKey(cl, c, key), h), Undefined)

\* get that answers null for every falsy data (storageItem.data || null)
getParsedFalsyNull(cl, c, key, p, h, t) ==
  IF ~p.ok THEN Throw(h)
  ELSE IF isExpired(p.val, t) THEN Return(erase(cl, c, key, h).h, Null)
  ELSE Return(h, IF Truthy(GetProp(p.val, "data")) THEN GetProp(p.val, "data") ELSE Null)

\* get that erases an expired item but still answers its data
getParsedStale(cl, c, key, p, h, t) ==
  IF ~p.ok THEN Throw(h)
  ELSE IF isExpired(p.val, t) THEN Return(erase(cl, c, key, h).h, GetProp(p.val, "data"))
  ELSE Return(h, IF Truthy(p.val) THEN GetProp(p.val, "data") ELSE p.val)

\* the rest of get, p being the outcome of JSON.parse on the stored text
getParsed(cl, c, key, p, h, t) ==
  IF ~p.ok THEN Throw(h)
  ELSE IF isExpired(p.val, t) THEN Return(erase(cl, c, key, h).h, Null)
  ELSE Return(h, IF Truthy(p.val) THEN GetProp(p.val, "data") ELSE p.val)

\* CustomStorage.prototype.get
get(cl, c, key, h, t) ==
  IF cl[c].driver = "none" THEN Throw(h)
  ELSE IF ~keyExists(cl, c, key, h) THEN Return(h, Null)
  ELSE getParsed(cl, c, key, parse(getItem(cl, c, prefixKey(cl, c, key), h)[2]), h, t)

\* the last statement of set: the driver stores the serialized container
setStore(cl, c, key, storageItem, h) ==
  IF cl[c].driver = "none" THEN Throw(h)
  ELSE Return(setItem(cl, c, prefixKey(cl, c, key), stringify(storageItem), h), Undefined)

\* set, e being the outcome of calculateExpirationTimestamp
setTimed(cl, c, key, data, e, h) ==
  IF e.threw THEN Throw(h)
  ELSE setStore(cl, c, key, Obj(<< <<"data", data>>, <<"expiresAt", e.val>> >>), h)

\* set that stamps the container with the current time when no expiresIn is given
setDataStamped(cl, c, key, data, opts, h, t) ==
  IF IsStr(GetProp(opts, "expiresIn"))
  THEN setTimed(cl, c, key, data,
                calculateExpirationTimestamp(GetProp(opts, "expiresIn")[2], t), h)
  ELSE setStore(cl, c, key, Obj(<< <<"data", data>>, <<"expiresAt", t>> >>), h)

\* set from the test of options.expiresIn on, data being storageItem.data
setData(cl, c, key, data, opts, h, t) ==
  IF IsStr(GetProp(opts, "expiresIn"))
  THEN setTimed(cl, c, key, data,
                calculateExpirationTimestamp(GetProp(opts, "expiresIn")[2], t), h)
  ELSE setStore(cl, c, key, Obj(<< <<"data", data>> >>), h)

\* set with options.merge, g being the outcome of this.get(key)
setMerged(cl, c, key, value, opts, g, t) ==
  IF g.threw THEN Throw(g.h)
  ELSE setData(cl, c, key, extend(IF Truthy(g.ret) THEN g.ret ELSE Obj(<<>>), value),
               opts, g.h, t)

\* set, opts being the options extended with the defaults
setWith(cl, c, key, value, opts, h, t) ==
  IF Truthy(GetProp(opts, "merge"))
  THEN setMerged(cl, c, key, value, opts, get(cl, c, key, h, t), t)
  ELSE setData(cl, c, key, value, opts, h, t)

\* CustomStorage.prototype.set
set(cl, c, key, value, options, h, t) ==
  setWith(cl, c, key, value,
          extend(Obj(<< <<"expiresIn", Bool(FALSE)>>, <<"merge", Bool(FALSE)>> >>), options),
          h, t)

\* CustomStorage.prototype.merge
merge(cl, c, key, obj, h, t) ==
  set(cl, c, key, obj, Obj(<< <<"merge", Bool(TRUE)>> >>), h, t)

\* executeOnKey that never erases
executeOnKeyNoErase(cl, c, key, callbackIsFunction, opts, g) ==
  IF g.threw THEN Throw(g.h)
  ELSE [h |-> g.h,
        ret |-> Undefined,
        threw |-> FALSE,
        calls |-> IF Truthy(g.ret) /\ callbackIsFunction THEN <<g.ret>> ELSE <<>>]

\* executeOnKey that invokes the callback whatever get returned
executeOnKeyAlways(cl, c, key, callbackIsFunction, opts, g) ==
  IF g.threw THEN Throw(g.h)
  ELSE [h |-> IF Truthy(GetProp(opts, "erase")) THEN erase(cl, c, key, g.h).h ELSE g.h,
        ret |-> Undefined,
        threw |-> FALSE,
        calls |-> IF callbackIsFunction THEN <<g.ret>> ELSE <<>>]

\* executeOnKey, g being the outcome of this.get(key) and opts the extended options
executeOnKeyWith(cl, c, key, callbackIsFunction, opts, g) ==
  IF g.threw THEN Throw(g.h)
  ELSE [h |-> IF Truthy(GetProp(opts, "erase")) THEN erase(cl, c, key, g.h).h ELSE g.h,
        ret |-> Undefined,
        threw |-> FALSE,
        calls |-> IF Truthy(g.ret) /\ callbackIsFunction THEN <<g.ret>> ELSE <<>>]

\* CustomStorage.prototype.executeOnKey; callback is a function or is not
executeOnKey(cl, c, key, callbackIsFunction, options, h, t) ==
  executeOnKeyWith(cl, c, key, callbackIsFunction,
                   extend(Obj(<< <<"erase", Bool(FALSE)>> >>), options),
                   get(cl, c, key, h, t))

(***************************************************************************)
(* Inputs.                                                                 *)
(***************************************************************************)
PrefixA == Str(<<"a">>)
PrefixAB == Str(<<"a", ":", "b">>)

Keys == {<<"k">>}

MapAB == Obj(<< <<"a", Num(1)>>, <<"b", Num(2)>> >>)
MapBC == Obj(<< <<"b", Num(3)>>, <<"c", Num(4)>> >>)

Primitives == {Null, Bool(FALSE), Num(0), Str(<<>>), Str(<<"f", "o", "o">>)}

Mappings == {MapAB, MapBC}

Values == Primitives \cup Mappings

OneSecond == <<"1", " ", "s", "e", "c", "o", "n", "d">>

ExpiresIns == {OneSecond}

\* the options objects passed to set: none, or an expiresIn string
SetOptions == {Undefined} \cup {Obj(<< <<"expiresIn", Str(e)>> >>) : e \in ExpiresIns}

\* the options objects passed to executeOnKey
EraseOptions == {Undefined, Obj(<< <<"erase", Bool(TRUE)>> >>)}

TickSteps == {Num(1), Num(1000)}

\* two clients of one window: their logical keys and values
ClientPrefixes == {PrefixA, PrefixAB}

ClientKeys == {<<"k">>, <<"b", ":", "k">>}

ClientValues == {Num(0), Str(<<"f", "o", "o">>)}

\* texts that other code, or corruption, leaves in localStorage: a word that is
\* no JSON, a truncated object, and JSON values that are no envelope
ForeignTexts ==
  << << <<"bad">> >>,
     << <<"{">>, <<"key", "data">>, <<":">> >>,
     << <<"num", 0, 5>> >>,
     << <<"lit", "null">> >>,
     << <<"str", <<"x">> >> >> >>

(***************************************************************************)
(* State.                                                                  *)
(*   client        the constructed clients, in order of construction       *)
(*   localStorage  window.localStorage: driver key -> stored text          *)
(*   cache         cache[c]: the cache object of client c's fallback driver*)
(*   now           the clock (+new Date)                                   *)
(*   last          the last method call, and how it ended                  *)
(*   twin          how the same call ended on the twin client (SpecMirror) *)
(*   lastWrite     lastWrite[<<c, key>>]: the last set, merge or erase     *)
(*                 that client c made on key (or the foreign write that    *)
(*                 replaced it)                                            *)
(*   soleKey       the one logical key of all calls so far, while they are *)
(*                 plain set and get calls on one key                      *)
(*   nOps, nTicks  counters of calls and of clock steps                    *)
(***************************************************************************)
H == [ls |-> localStorage, cache |-> cache]

NoOp == [name |-> "none", key |-> <<>>, value |-> Undefined, options |-> Undefined,
         callback |-> FALSE]

NoCall == [op |-> NoOp, c |-> 0, ret |-> Undefined, threw |-> FALSE, calls |-> <<>>,
           before |-> Undefined, itemBefore |-> Undefined, at |-> Num(0)]

\* the method call op made on client c
Run(cl, c, op, h, t) ==
  CASE op.name = "set" -> set(cl, c, op.key, op.value, op.options, h, t)
    [] op.name = "merge" -> merge(cl, c, op.key, op.value, h, t)
    [] op.name = "get" -> get(cl, c, op.key, h, t)
    [] op.name = "erase" -> erase(cl, c, op.key, h)
    [] op.name = "executeOnKey" ->
         executeOnKey(cl, c, op.key, op.callback, op.options, h, t)

\* a call that is aimed at changing the entry: set, merge, erase, executeOnKey with erase
IsWrite(op) ==
  \/ op.name \in {"set", "merge", "erase"}
  \/ op.name = "executeOnKey" /\ Truthy(GetProp(op.options, "erase"))

\* a set without options or a get
IsPlain(op) ==
  \/ op.name = "get"
  \/ op.name = "set" /\ op.options = Undefined

\* what get(key) would return on client c, were it called now (undefined when it throws)
Read(cl, c, key, h, t) == get(cl, c, key, h, t).ret

\* the record of a call: its result, and what the entry held before it
Call(cl, c, op, h, t, r) ==
  [op |-> op, c |-> c, ret |-> r.ret, threw |-> r.threw, calls |-> r.calls,
   before |-> IF cl[c].driver = "none" THEN Undefined ELSE Read(cl, c, op.key, h, t),
   itemBefore |-> IF cl[c].driver = "none" THEN Undefined
                  ELSE getItem(cl, c, prefixKey(cl, c, op.key), h),
   at |-> t]

NextSoleKey(op) ==
  IF ~IsPlain(op) THEN <<"mixed">>
  ELSE IF soleKey = <<"none">> THEN <<"key", op.key>>
  ELSE IF soleKey = <<"key", op.key>> THEN soleKey
  ELSE <<"mixed">>

\* the call recorded as the last one, and as the last write when it is one
Record(c, op, call) ==
  /\ last' = call
  /\ lastWrite' = IF IsWrite(op) /\ client[c].driver # "none"
                  THEN Put(lastWrite, <<c, op.key>>, call)
                  ELSE lastWrite

\* the outcome r of the call op on client c becomes the state
Commit(c, op, r) ==
  /\ localStorage' = r.h.ls
  /\ cache' = r.h.cache
  /\ Record(c, op, Call(client, c, op, H, now, r))

\* one method call on client c, run to completion
Step(c, op) ==
  /\ nOps < MaxOps
  /\ Commit(c, op, Run(client, c, op, H, now))
  /\ soleKey' = NextSoleKey(op)
  /\ nOps' = nOps + 1
  /\ UNCHANGED <<client, now, twin, nTicks>>

\* the state the constructed clients cl start in
Start(cl) ==
  /\ client = cl
  /\ localStorage = <<>>
  /\ cache = [c \in 1..Len(cl) |-> <<>>]
  /\ now = Num(1)
  /\ last = NoCall
  /\ twin = NoCall
  /\ lastWrite = <<>>
  /\ soleKey = <<"none">>
  /\ nOps = 0
  /\ nTicks = 0

\* the state after construction: one client, built by new CustomStorage(prefix)
\* in a window with or without localStorage
Init ==
  \E prefix \in {Undefined, Str(<<>>), PrefixA}, hasLocalStorage \in BOOLEAN :
    Start(<<CustomStorage(prefix, hasLocalStorage)>>)

\* the clock advances
Tick ==
  /\ nTicks < MaxTicks
  /\ \E d \in TickSteps : now' = Plus(now, d)
  /\ nTicks' = nTicks + 1
  /\ UNCHANGED <<client, localStorage, cache, last, twin, lastWrite, soleKey, nOps>>

SetOp(key, value, options) ==
  [NoOp EXCEPT !.name = "set", !.key = key, !.value = value, !.options = options]

MergeOp(key, obj) == [NoOp EXCEPT !.name = "merge", !.key = key, !.value = obj]

GetOp(key) == [NoOp EXCEPT !.name = "get", !.key = key]

EraseOp(key) == [NoOp EXCEPT !.name = "erase", !.key = key]

ExecuteOnKeyOp(key, callback, options) ==
  [NoOp EXCEPT !.name = "executeOnKey", !.key = key, !.callback = callback,
               !.options = options]

\* every call of the single-client specifications
Ops ==
  {SetOp(key, value, options) : key \in Keys, value \in Values, options \in SetOptions}
  \cup {MergeOp(key, obj) : key \in Keys, obj \in Mappings}
  \cup {GetOp(key) : key \in Keys}
  \cup {EraseOp(key) : key \in Keys}
  \cup {ExecuteOnKeyOp(key, callback, options) :
          key \in Keys, callback \in BOOLEAN, options \in EraseOptions}

Set == \E c \in 1..Len(client), op \in Ops : op.name = "set" /\ Step(c, op)

Merge == \E c \in 1..Len(client), op \in Ops : op.name = "merge" /\ Step(c, op)

Get == \E c \in 1..Len(client), op \in Ops : op.name = "get" /\ Step(c, op)

Erase == \E c \in 1..Len(client), op \in Ops : op.name = "erase" /\ Step(c, op)

ExecuteOnKey == \E c \in 1..Len(client), op \in Ops : op.name = "executeOnKey" /\ Step(c, op)

Next == Tick \/ Set \/ Merge \/ Get \/ Erase \/ ExecuteOnKey

Spec == Init /\ [][Next]_vars

(***************************************************************************)
(* SpecForeign: the single client, and other code writing to localStorage  *)
(* under the client's driver key.                                          *)
(***************************************************************************)
ForeignWrite ==
  /\ nOps < MaxOps
  /\ client[1].driver = "localStorage"
  /\ \E key \in Keys, i \in 1..Len(ForeignTexts) :
       /\ localStorage' = Put(localStorage, prefixKey(client, 1, key), ForeignTexts[i])
       /\ lastWrite' = Put(lastWrite, <<1, key>>,
                           [NoCall EXCEPT !.op.name = "foreign", !.op.key = key,
                                          !.op.value = Str(ForeignTexts[i]), !.c = 1, !.at = now])
  /\ last' = NoCall
  /\ soleKey' = <<"mixed">>
  /\ nOps' = nOps + 1
  /\ UNCHANGED <<client, cache, now, twin, nTicks>>

NextForeign == Next \/ ForeignWrite

SpecForeign == Init /\ [][NextForeign]_vars

(***************************************************************************)
(* SpecClients: two clients constructed in one window, making plain calls. *)
(***************************************************************************)
InitClients ==
  \E p1 \in ClientPrefixes, p2 \in ClientPrefixes, hasLocalStorage \in BOOLEAN :
    Start(<<CustomStorage(p1, hasLocalStorage), CustomStorage(p2, hasLocalStorage)>>)

ClientSet ==
  \E c \in 1..Len(client), key \in ClientKeys, value \in ClientValues :
    Step(c, SetOp(key, value, Undefined))

ClientGet == \E c \in 1..Len(client), key \in ClientKeys : Step(c, GetOp(key))

ClientErase == \E c \in 1..Len(client), key \in ClientKeys : Step(c, EraseOp(key))

NextClients == ClientSet \/ ClientGet \/ ClientErase

SpecClients == InitClients /\ [][NextClients]_vars

(***************************************************************************)
(* SpecMirror: the same calls, at the same clock readings, made on a       *)
(* client in a window with localStorage (client 1) and on its twin in a    *)
(* window without (client 2).                                              *)
(***************************************************************************)
InitMirror == Start(<<CustomStorage(PrefixA, TRUE), CustomStorage(PrefixA, FALSE)>>)

\* the outcome r2 of the call on the twin, made on the heap h1 the first call left
MirrorTwin(op, h1, r2) ==
  /\ localStorage' = r2.h.ls
  /\ cache' = r2.h.cache
  /\ twin' = Call(client, 2, op, h1, now, r2)

\* the outcome r1 of the call on client 1, then the same call on client 2
MirrorBoth(op, r1) ==
  /\ last' = Call(client, 1, op, H, now, r1)
  /\ MirrorTwin(op, r1.h, Run(client, 2, op, r1.h, now))

Mirror ==
  /\ nOps < MaxOps
  /\ \E op \in Ops :
       /\ MirrorBoth(op, Run(client, 1, op, H, now))
       /\ soleKey' = NextSoleKey(op)
  /\ nOps' = nOps + 1
  /\ UNCHANGED <<client, now, lastWrite, nTicks>>

NextMirror == Tick \/ Mirror

SpecMirror == InitMirror /\ [][NextMirror]_vars

(***************************************************************************)
(* SpecDuration: the single client, its calls of set carrying an expiresIn *)
(* string "amount unit": every unit of the table in four spellings, and    *)
(* units that the table does not have.                                     *)
(***************************************************************************)
AmountTexts == << <<"0">>, <<"2">>, <<"1", "2">> >>

UnitTexts ==
  << <<"s", "e", "c", "o", "n", "d">>,
     <<"m", "i", "n", "u", "t", "e">>,
     <<"h", "o", "u", "r">>,
     <<"d", "a", "y">>,
     <<"w", "e", "e", "k">>,
     <<"m", "o", "n", "t", "h">>,
     <<"y", "e", "a", "r">> >>

Spellings == {"lower", "lowers", "UPPER", "UPPERS"}

\* the unit name in lower or upper case, with or without one trailing s
Spell(unit, spelling) ==
  CASE spelling = "lower" -> unit
    [] spelling = "lowers" -> unit \o <<"s">>
    [] spelling = "UPPER" -> toUpperCase(unit)
    [] spelling = "UPPERS" -> toUpperCase(unit) \o <<"S">>

\* the expiresIn string amount + " " + unit
DurationText(amount, unit) == amount \o <<" ">> \o unit

DurationTexts ==
  {DurationText(AmountTexts[a], Spell(UnitTexts[u], sp)) :
     a \in 1..Len(AmountTexts), u \in 1..Len(UnitTexts), sp \in Spellings}

UnknownUnitTexts ==
  {DurationText(<<"2">>, <<"f", "o", "o">>),
   DurationText(<<"1">>, <<"f", "o", "r", "t", "n", "i", "g", "h", "t", "s">>)}

\* the calls of set with a spelled duration are among the first MaxDurationSets calls
SetDuration ==
  \E c \in 1..Len(client), key \in Keys, text \in DurationTexts \cup UnknownUnitTexts :
    /\ nOps < MaxDurationSets
    /\ Step(c, SetOp(key, Str(<<"f", "o", "o">>), Obj(<< <<"expiresIn", Str(text)>> >>)))

NextDuration == Tick \/ SetDuration \/ Get

SpecDuration == Init /\ [][NextDuration]_vars

(***************************************************************************)
(* Properties.                                                             *)
(***************************************************************************)
\* structural equality: two objects with the same properties, whatever their order
Same(a, b) ==
  IF IsObj(a) /\ IsObj(b)
  THEN /\ Names(a[2]) = Names(b[2])
       /\ \A n \in Names(a[2]) : GetProp(a, n) = GetProp(b, n)
  ELSE a = b

\* the last call is name on an entry that this client wrote before
LastOn(name) == last.op.name = name /\ <<last.c, last.op.key>> \in DOMAIN lastWrite

\* the last write that the client of the last call made on the key of the last call
LastWritten == lastWrite[<<last.c, last.op.key>>]

\* the stored text under the key of the last call, as the driver holds it now
EntryNow == getItem(client, last.c, prefixKey(client, last.c, last.op.key), H)

IsPlainSet(w) == w.op.name = "set" /\ w.op.options = Undefined

IsTimedSet(w) == w.op.name = "set" /\ IsStr(GetProp(w.op.options, "expiresIn"))

\* the durations of the expiresIn strings of the model, in milliseconds
KnownDurations == << <<OneSecond, Num(1000)>> >>

\* the time at which the timed set w expires
ExpiryOf(w) == Plus(w.at, Lookup(KnownDurations, GetProp(w.op.options, "expiresIn")[2]))

\* the entry the call found was there and had not expired
Held(call) ==
  /\ Truthy(call.itemBefore)
  /\ parse(call.itemBefore[2]).ok
  /\ ~Less(ToNumber(GetProp(parse(call.itemBefore[2]).val, "expiresAt")), call.at)

\* the call found no entry, or one that had expired
Absent(call) ==
  \/ ~Truthy(call.itemBefore)
  \/ /\ parse(call.itemBefore[2]).ok
     /\ Less(ToNumber(GetProp(parse(call.itemBefore[2]).val, "expiresAt")), call.at)

\* the union of the mappings m and o, the fields of o winning
IsUnion(u, m, o) ==
  /\ IsObj(u)
  /\ Names(u[2]) = Names(m[2]) \cup Names(o[2])
  /\ \A n \in Names(u[2]) :
       GetProp(u, n) = IF HasOwn(o[2], n) THEN GetProp(o, n) ELSE GetProp(m, n)

\* C1: a get that follows a set without options on the same key of the same
\* client, with no other write on the key in between, returns a value
\* structurally equal to the one set, falsy values included.
RoundTrip ==
  (LastOn("get") /\ IsPlainSet(LastWritten)) =>
    /\ ~LastWritten.threw
    /\ ~last.threw
    /\ Same(last.ret, LastWritten.op.value)

RoundTripWitness ==
  /\ LastOn("get")
  /\ IsPlainSet(LastWritten)
  /\ LastWritten.op.value = Num(0)
  /\ last.ret = Num(0)

RoundTripMappingWitness ==
  /\ LastOn("get")
  /\ IsPlainSet(LastWritten)
  /\ LastWritten.op.value = MapAB
  /\ client[last.c].driver = "fallback"

\* what client c reads for key k is what c itself set last, and null before c set it
OwnValue(c, k) ==
  IF <<c, k>> \in DOMAIN lastWrite
  THEN /\ Same(Read(client, c, k, H, now), lastWrite[<<c, k>>].op.value)
       /\ (last.op.name = "get" /\ last.c = c) => Same(last.ret, lastWrite[<<c, k>>].op.value)
  ELSE /\ Read(client, c, k, H, now) = Null
       /\ (last.op.name = "get" /\ last.c = c) => last.ret = Null

\* C2: two clients of one driver with distinct prefixes, all calls so far being
\* set and get on one logical key k: get(k) on each client returns the value
\* that this client set last.
Namespacing ==
  \A c1 \in 1..Len(client), c2 \in 1..Len(client) :
    (/\ c1 # c2
     /\ client[c1].prefix # client[c2].prefix
     /\ client[c1].driver = client[c2].driver
     /\ soleKey[1] = "key") => OwnValue(c1, soleKey[2])

NamespacingWitness ==
  /\ Len(client) = 2
  /\ client[1].prefix # client[2].prefix
  /\ client[1].driver = "localStorage"
  /\ client[2].driver = "localStorage"
  /\ soleKey[1] = "key"
  /\ <<1, soleKey[2]>> \in DOMAIN lastWrite
  /\ <<2, soleKey[2]>> \in DOMAIN lastWrite
  /\ lastWrite[<<1, soleKey[2]>>].op.value # lastWrite[<<2, soleKey[2]>>].op.value
  /\ last.op.name = "get"
  /\ last.ret = lastWrite[<<last.c, soleKey[2]>>].op.value

\* C3: a get that follows merge(k, o) on a key that held the unexpired mapping m
\* returns the union of m and o, the fields of o having o's values.
MergeSemantics ==
  (LastOn("get") /\ LastWritten.op.name = "merge" /\ IsObj(LastWritten.before)) =>
    /\ ~LastWritten.threw
    /\ ~last.threw
    /\ IsUnion(last.ret, LastWritten.before, LastWritten.op.value)

MergeSemanticsWitness ==
  /\ LastOn("get")
  /\ LastWritten.op.name = "merge"
  /\ LastWritten.before = MapAB
  /\ LastWritten.op.value = MapBC
  /\ GetProp(last.ret, "a") = Num(1)
  /\ GetProp(last.ret, "b") = Num(3)
  /\ GetProp(last.ret, "c") = Num(4)

\* C4: erase on a client that has a driver ends without error whatever the
\* entry was, and a get that follows it with no write in between returns null.
EraseThenNull ==
  \A ck \in DOMAIN lastWrite :
    lastWrite[ck].op.name = "erase" =>
      /\ ~lastWrite[ck].threw
      /\ Read(client, ck[1], ck[2], H, now) = Null
      /\ (last.op.name = "get" /\ last.c = ck[1] /\ last.op.key = ck[2]) =>
           (~last.threw /\ last.ret = Null)

EraseThenNullWitness ==
  /\ LastOn("get")
  /\ LastWritten.op.name = "erase"
  /\ Truthy(LastWritten.itemBefore)
  /\ last.ret = Null

\* C5: after a set with a recognised expiresIn of D milliseconds at time t, a get
\* at a time before t + D returns the value and leaves the entry in place, and a
\* get at a time after t + D returns null and leaves no entry.
Expiration ==
  (LastOn("get") /\ IsTimedSet(LastWritten)) =>
    /\ ~LastWritten.threw
    /\ ~last.threw
    /\ Less(last.at, ExpiryOf(LastWritten)) =>
         /\ Same(last.ret, LastWritten.op.value)
         /\ Truthy(last.itemBefore)
         /\ EntryNow = last.itemBefore
    /\ Less(ExpiryOf(LastWritten), last.at) =>
         /\ last.ret = Null
         /\ ~Truthy(EntryNow)

\* the first get after the expiry: it found the entry, returned null and removed it
ExpirationWitness ==
  /\ LastOn("get")
  /\ IsTimedSet(LastWritten)
  /\ Less(ExpiryOf(LastWritten), last.at)
  /\ Truthy(last.itemBefore)
  /\ last.ret = Null
  /\ ~Truthy(EntryNow)

ExpirationBeforeWitness ==
  /\ LastOn("get")
  /\ IsTimedSet(LastWritten)
  /\ Less(LastWritten.at, last.at)
  /\ Less(last.at, ExpiryOf(LastWritten))
  /\ last.ret = LastWritten.op.value

\* C6: every get returns on the fallback driver what it returns on localStorage,
\* after the same calls at the same clock readings.
FallbackTransparency ==
  last.op.name = "get" =>
    /\ twin.op = last.op
    /\ twin.threw = last.threw
    /\ Same(twin.ret, last.ret)

FallbackTransparencyWitness ==
  /\ last.op.name = "get"
  /\ twin.op.name = "get"
  /\ client[last.c].driver = "localStorage"
  /\ client[twin.c].driver = "fallback"
  /\ IsObj(last.ret)
  /\ Same(twin.ret, last.ret)

\* executeOnKey with a function and erase: true, on an unexpired entry
IsExecuteErase(call) ==
  /\ call.op.name = "executeOnKey"
  /\ call.op.callback
  /\ Truthy(GetProp(call.op.options, "erase"))
  /\ Held(call)

\* C7, as claimed: executeOnKey(k, callback, {erase: true}) on an unexpired entry
\* invokes callback exactly once with the stored value, whatever that value is,
\* and get(k) is null afterwards.
ExecuteOnKeyAnyValue ==
  IsExecuteErase(last) =>
    /\ ~last.threw
    /\ last.calls = <<last.before>>
    /\ Read(client, last.c, last.op.key, H, now) = Null

\* C7, amended: the callback is invoked exactly once, with the stored value, when
\* that value is truthy, and not at all when it is falsy (0, "", false, null); in
\* both cases the entry is erased and get(k) is null afterwards.
ExecuteOnKeyTruthy ==
  /\ IsExecuteErase(last) =>
       /\ ~last.threw
       /\ last.calls = IF Truthy(last.before) THEN <<last.before>> ELSE <<>>
       /\ ~Truthy(EntryNow)
       /\ Read(client, last.c, last.op.key, H, now) = Null
  /\ (LastOn("get") /\ IsExecuteErase(LastWritten)) => (~last.threw /\ last.ret = Null)

ExecuteOnKeyTruthyWitness ==
  /\ LastOn("get")
  /\ IsExecuteErase(LastWritten)
  /\ LastWritten.calls = <<MapAB>>
  /\ last.ret = Null

\* C8: executeOnKey on a key with no entry, or with an entry that this read
\* finds expired, never invokes the callback, whatever options.erase is.
ExecuteOnKeyAbsent ==
  (last.op.name = "executeOnKey" /\ Absent(last)) => last.calls = <<>>

ExecuteOnKeyAbsentWitness ==
  /\ last.op.name = "executeOnKey"
  /\ last.op.callback
  /\ Truthy(last.itemBefore)
  /\ Absent(last)
  /\ ~last.threw
  /\ ~Truthy(EntryNow)
  /\ last.calls = <<>>

\* C9, as claimed: get on a key under which other code left a non-empty text
\* that is no serialized envelope returns null or undefined and does not throw.
DecodeFailureSwallowed ==
  (LastOn("get") /\ LastWritten.op.name = "foreign") =>
    /\ ~last.threw
    /\ last.ret \in {Null, Undefined}

\* C10, as claimed: a get that follows merge(k, o) on a key that was absent or
\* held a string, a number or a boolean returns exactly the fields of o.
MergeOntoNonMapping ==
  (/\ LastOn("get")
   /\ LastWritten.op.name = "merge"
   /\ \/ ~Truthy(LastWritten.itemBefore)
      \/ Held(LastWritten) /\ Tag(LastWritten.before) \in {"str", "num", "bool"}) =>
    /\ ~last.threw
    /\ Same(last.ret, LastWritten.op.value)

\* the heap of the next state
HNext == [ls |-> localStorage', cache |-> cache']

\* C11, as claimed: a call on one client never changes what get(k2) returns on
\* another client of the same driver whose prefix is different, whatever the
\* logical keys of the two clients are.
NoInterference ==
  [][\A c1 \in 1..Len(client), c2 \in 1..Len(client), k2 \in ClientKeys :
       (/\ nOps' = nOps + 1
        /\ last'.c = c1
        /\ c1 # c2
        /\ client[c1].prefix # client[c2].prefix
        /\ client[c1].driver = client[c2].driver) =>
         Read(client, c2, k2, HNext, now) = Read(client, c2, k2, H, now)]_vars

\* the call found a serialized envelope under its key
FoundEnvelope(call) == Truthy(call.itemBefore) /\ parse(call.itemBefore[2]).ok

\* the expiresAt of the envelope the call found
FoundExpiresAt(call) == GetProp(parse(call.itemBefore[2]).val, "expiresAt")

\* the data of the envelope the call found
FoundData(call) == GetProp(parse(call.itemBefore[2]).val, "data")

\* the get ended with null and left no entry under its key
GetEvicted == ~last.threw /\ last.ret = Null /\ ~Truthy(EntryNow)

\* the get ended with the data of the envelope and left the entry as it was
GetKept == ~last.threw /\ last.ret = FoundData(last) /\ EntryNow = last.itemBefore

\* C12, as claimed: a get that finds an envelope whose expiresAt is at or before
\* the current time, the two being equal included, erases the key and returns null.
ExpiryAtOrBefore ==
  (/\ last.op.name = "get"
   /\ FoundEnvelope(last)
   /\ IsNum(FoundExpiresAt(last))
   /\ ~Less(last.at, FoundExpiresAt(last))) => GetEvicted

\* C12, amended: the get erases the key and returns null when expiresAt is
\* strictly before the current time; when expiresAt is the current time or later,
\* it returns the data and leaves the entry in place.
ExpiryStrictlyBefore ==
  (/\ last.op.name = "get"
   /\ FoundEnvelope(last)
   /\ IsNum(FoundExpiresAt(last))) =>
    IF Less(FoundExpiresAt(last), last.at) THEN GetEvicted ELSE GetKept

\* a get at the very time the entry expires: it returns the data
ExpiryStrictlyBeforeWitness ==
  /\ last.op.name = "get"
  /\ FoundEnvelope(last)
  /\ FoundExpiresAt(last) = last.at
  /\ last.ret = MapAB
  /\ EntryNow = last.itemBefore

\* the envelope stored now under the key of the last call (the entry being there)
EnvelopeNow == parse(EntryNow[2]).val

\* C13, as claimed: merge(k, o) on a key that holds an unexpired envelope with
\* expiresAt = T leaves an envelope that still carries expiresAt = T, and a get
\* after the clock has passed T returns null.
MergeKeepsExpiry ==
  /\ (/\ last.op.name = "merge"
      /\ Held(last)
      /\ IsNum(FoundExpiresAt(last))) =>
       /\ ~last.threw
       /\ Truthy(EntryNow)
       /\ GetProp(EnvelopeNow, "expiresAt") = FoundExpiresAt(last)
  /\ (/\ LastOn("get")
      /\ LastWritten.op.name = "merge"
      /\ Held(LastWritten)
      /\ IsNum(FoundExpiresAt(LastWritten))
      /\ Less(FoundExpiresAt(LastWritten), last.at)) => last.ret = Null

\* the text that the driver of client c holds under the logical key k
EntryOf(c, k) == getItem(client, c, prefixKey(client, c, k), H)

\* a set whose options carry no expiresIn string
IsUntimedSet(w) == w.op.name = "set" /\ ~IsStr(GetProp(w.op.options, "expiresIn"))

\* C14: the envelope written by a set without an expiresIn string carries no
\* expiresAt, also when it replaced an entry that had one, and until the next
\* set, merge or erase on the key every get, at every later clock time, returns
\* the written data.
NeverExpires ==
  \A ck \in DOMAIN lastWrite :
    IsUntimedSet(lastWrite[ck]) =>
      /\ ~lastWrite[ck].threw
      /\ Truthy(EntryOf(ck[1], ck[2]))
      /\ parse(EntryOf(ck[1], ck[2])[2]).ok
      /\ ~HasOwn(parse(EntryOf(ck[1], ck[2])[2]).val[2], "expiresAt")
      /\ Same(Read(client, ck[1], ck[2], H, now), lastWrite[ck].op.value)
      /\ (last.op.name = "get" /\ last.c = ck[1] /\ last.op.key = ck[2]) =>
           (~last.threw /\ Same(last.ret, lastWrite[ck].op.value))

\* a get after the time at which the replaced entry would have expired
NeverExpiresWitness ==
  /\ LastOn("get")
  /\ IsUntimedSet(LastWritten)
  /\ FoundEnvelope(LastWritten)
  /\ IsNum(FoundExpiresAt(LastWritten))
  /\ Less(FoundExpiresAt(LastWritten), last.at)
  /\ last.ret = MapAB

\* C15, as claimed: two clients constructed with the same prefix in one window,
\* both on localStorage or both on the fallback: after a set(k, v) by one of
\* them, get(k) on either client returns v, the value of the most recent set.
LastWriterWins ==
  (last.op.name = "set" /\ ~last.threw) =>
    \A c2 \in 1..Len(client) :
      (/\ client[c2].prefix = client[last.c].prefix
       /\ client[c2].driver = client[last.c].driver) =>
        Same(Read(client, c2, last.op.key, H, now), last.op.value)

\* the milliseconds of the units, in the order of UnitTexts
UnitMilliseconds ==
  << Wide(1, 0), Wide(60, 0), Wide(3600, 0), Wide(86400, 0), Wide(604800, 0),
     Wide(2592000, 0), Wide(31536000, 0) >>

\* the last call is a set whose expiresIn is text, on a client that has a driver
IsSetExpiringIn(call, text) ==
  /\ call.op.name = "set"
  /\ client[call.c].driver # "none"
  /\ GetProp(call.op.options, "expiresIn") = Str(text)

\* C16, as claimed: for every amount n and every unit of the table, in lower or
\* upper case and with or without one trailing s, the string "n unit" converts to
\* n times the milliseconds of the unit, and the expiresAt that set stores is the
\* clock time of the set plus that product.
DurationConversion ==
  \A a \in 1..Len(AmountTexts), u \in 1..Len(UnitTexts), sp \in Spellings :
    IsSetExpiringIn(last, DurationText(AmountTexts[a], Spell(UnitTexts[u], sp))) =>
      /\ ~last.threw
      /\ convertExpirationStringToMilliseconds(
           DurationText(AmountTexts[a], Spell(UnitTexts[u], sp))).val
           = Times(DigitsToNumber(AmountTexts[a]), UnitMilliseconds[u])
      /\ Truthy(EntryNow)
      /\ GetProp(EnvelopeNow, "expiresAt")
           = Plus(last.at, Times(DigitsToNumber(AmountTexts[a]), UnitMilliseconds[u]))

\* C19: a set whose expiresIn names a unit that the table does not have ends
\* without error and writes an entry, so that keyExists is true, with an
\* expiresAt serialized as null; the next get, the clock being greater than
\* zero, returns null and removes the entry.
UnknownUnitExpired ==
  \A text \in UnknownUnitTexts :
    /\ IsSetExpiringIn(last, text) =>
         /\ ~last.threw
         /\ keyExists(client, last.c, last.op.key, H)
         /\ HasOwn(EnvelopeNow[2], "expiresAt")
         /\ GetProp(EnvelopeNow, "expiresAt") = Null
         /\ Less(Num(0), now)
         /\ Read(client, last.c, last.op.key, H, now) = Null
    /\ (LastOn("get") /\ IsSetExpiringIn(LastWritten, text)) =>
         /\ ~last.threw
         /\ last.ret = Null
         /\ ~Truthy(EntryNow)

\* the get that follows such a set: it found the entry, returned null and removed it
UnknownUnitExpiredWitness ==
  /\ LastOn("get")
  /\ \E text \in UnknownUnitTexts : IsSetExpiringIn(LastWritten, text)
  /\ Truthy(last.itemBefore)
  /\ GetProp(parse(last.itemBefore[2]).val, "expiresAt") = Null
  /\ last.ret = Null
  /\ ~Truthy(EntryNow)

\* C17: after a set with an expiresIn, while no other call is made, the entry
\* stays in the driver as it was written and keyExists is true for it, at every
\* clock time, the times after its expiresAt included.
EvictionOnlyOnTouch ==
  (IsTimedSet(last) /\ client[last.c].driver # "none") =>
    /\ ~last.threw
    /\ keyExists(client, last.c, last.op.key, H)
    /\ EntryNow = Str(stringify(Obj(<< <<"data", last.op.value>>,
                                       <<"expiresAt", ExpiryOf(last)>> >>)))

\* the clock has passed the expiresAt of the entry, and the entry is still there
EvictionOnlyOnTouchWitness ==
  /\ IsTimedSet(last)
  /\ client[last.c].driver # "none"
  /\ Less(ExpiryOf(last), now)
  /\ keyExists(client, last.c, last.op.key, H)
  /\ Read(client, last.c, last.op.key, H, now) = Null

\* C18: a client constructed with an empty prefix has no driver and no prefix,
\* every set, get, merge, erase and executeOnKey on it ends in an error, and
\* localStorage and the fallback caches stay as they were at construction.
InertClient ==
  \A c \in 1..Len(client) :
    ~Truthy(client[c].prefix) =>
      /\ client[c].driver = "none"
      /\ client[c].prefix = Undefined
      /\ (last.c = c) => last.threw
      /\ Len(client) = 1 => (localStorage = <<>> /\ cache = <<<<>>>>)

\* a set with an expiresIn on the inert client: it ended in an error
InertClientWitness ==
  /\ client[1].driver = "none"
  /\ IsTimedSet(last)
  /\ last.threw
  /\ localStorage = <<>>

\* the merge found the mapping m under its key, with an expiresAt before the
\* time of the merge
MergedOntoExpired(w) ==
  /\ w.op.name = "merge"
  /\ FoundEnvelope(w)
  /\ IsObj(FoundData(w))
  /\ Less(FoundExpiresAt(w), w.at)

\* C20: merge(k, o) on a key that holds a mapping whose expiresAt is strictly
\* before the current time stores exactly the fields of o, in an envelope
\* without expiresAt: until the next set, merge or erase on k, every get(k)
\* returns o, with none of the fields that only the expired mapping had.
MergeOntoExpired ==
  \A ck \in DOMAIN lastWrite :
    MergedOntoExpired(lastWrite[ck]) =>
      /\ ~lastWrite[ck].threw
      /\ lastWrite[ck].before = Null
      /\ EntryOf(ck[1], ck[2]) = Str(stringify(Obj(<< <<"data", lastWrite[ck].op.value>> >>)))
      /\ Read(client, ck[1], ck[2], H, now) = lastWrite[ck].op.value
      /\ (last.op.name = "get" /\ last.c = ck[1] /\ last.op.key = ck[2]) =>
           (~last.threw /\ last.ret = lastWrite[ck].op.value)

\* the expired {a: 1, b: 2} merged with {b: 3, c: 4} reads back without a
MergeOntoExpiredWitness ==
  /\ LastOn("get")
  /\ MergedOntoExpired(LastWritten)
  /\ FoundData(LastWritten) = MapAB
  /\ LastWritten.op.value = MapBC
  /\ last.ret = MapBC
  /\ GetProp(last.ret, "a") = Undefined

====
